---- MODULE Spec2Model ----
(***************************************************************************)
(* inverse_covariance/statistical_power.py: the StatisticalPower           *)
(* experiment controller, its module-level random source, the graph        *)
(* synthesizer, the sampler and the exact-support comparator.              *)
(*                                                                         *)
(* Numbers.  Matrix entries are integers in hundredths (0.7*0.7 = 49,      *)
(* eps = 0.2 = 20).  A float of results_ is a fraction [n, d]; d = 0 is    *)
(* the float a division by zero leaves (0/0 = nan).  A sparsity level and  *)
(* a draw of the random source are integers in units of 1/40000, in which  *)
(* the five levels of linspace(0.99, 0.999, 5) are whole numbers.          *)
(***************************************************************************)
EXTENDS Integers, Sequences, FiniteSets, TLC

(* ------------------------------ bounds -------------------------------- *)
\* n_features given to the constructor
NFeatures == 2
\* n_trials given to the constructor ranges over 0..MaxTrials
MaxTrials == 2
\* n_grid_points given to the constructor ranges over 1..MaxGridPoints
MaxGridPoints == 2
\* calls of fit in one process
MaxFits == 2
\* the estimator fit that raises is one of the first MaxFaultAt
MaxFaultAt == 12
\* calls of exact_support on the same pair of arrays
MaxCompares == 2
\* the sample count on its own: feature counts and grid points up to
MaxCntFeatures == 8
MaxCntPoints == 4

(* --------------------------- program constants ------------------------ *)
\* n_alpha_grid_points = 5
n_alpha_grid_points == 5
\* eps = 0.2, in hundredths
eps == 20
\* smallest_coef = largest_coef = 0.7, in tenths
coef == 7
\* the identity's 1.0 in tenths (chol = -np.eye(dim))
one == 10
\* np.random.RandomState(1): the seed
seed == 1
\* the random source: a full-period congruential generator standing for
\* NumPy's generator; a draw rand() is state / PrngMod
PrngMod == 40000
PrngMul == 21
PrngInc == 7237

(* ------------------------------ helpers ------------------------------- *)
Abs(x) == IF x < 0 THEN -x ELSE x

Sign(x) == IF x < 0 THEN -1 ELSE IF x > 0 THEN 1 ELSE 0

RECURSIVE Gcd(_, _)
Gcd(a, b) == IF b = 0 THEN a ELSE Gcd(b, a % b)

\* floor of the square root, by bisection on lo..hi
RECURSIVE SqrtIn(_, _, _)
SqrtIn(x, lo, hi) ==
  IF lo >= hi THEN lo
  ELSE LET mid == (lo + hi + 1) \div 2
       IN IF mid * mid <= x THEN SqrtIn(x, mid, hi) ELSE SqrtIn(x, lo, mid - 1)

RECURSIVE SqrtHi(_, _)
SqrtHi(x, h) == IF h * h > x THEN h ELSE SqrtHi(x, 2 * h)

ISqrt(x) == SqrtIn(x, 0, SqrtHi(x, 1))

RECURSIVE Pow(_, _)
Pow(b, k) == IF k = 0 THEN 1 ELSE b * Pow(b, k - 1)

\* the sequence s without its k-th element
RemoveAt(s, k) == [i \in 1..(Len(s) - 1) |-> IF i < k THEN s[i] ELSE s[i + 1]]

\* truncation toward zero, as a float product printed in hundredths
TruncDiv(a, b) == Sign(a) * (Abs(a) \div b)

(* --------------------------- random source ---------------------------- *)
\* one step of the generator
PrngNext(s) == (PrngMul * s + PrngInc) % PrngMod

\* the state after k draws
RECURSIVE PrngSkip(_, _)
PrngSkip(s, k) == IF k <= 0 THEN s ELSE PrngSkip(PrngNext(s), k - 1)

(* ------------------------------ matrices ------------------------------ *)
Idx(n) == 1..n

\* the flat (row-major) view of an n x n matrix, indices 1..n*n
Flat(M) ==
  LET n == Len(M)
  IN [k \in 1..(n * n) |-> M[((k - 1) \div n) + 1][((k - 1) % n) + 1]]

\* np.nonzero(m.flat)[0]: the flat indices of the non-zero entries
Nonzero(M) == {k \in DOMAIN Flat(M) : Flat(M)[k] # 0}

\* np.count_nonzero(prec.flat)
count_nonzero(M) == Cardinality(Nonzero(M))

\* determinant of the submatrix of M on rows rs and columns cs (Laplace)
RECURSIVE Det(_, _, _)
RECURSIVE DetSum(_, _, _, _)
DetSum(M, rs, cs, k) ==
  IF k > Len(cs) THEN 0
  ELSE (IF k % 2 = 1 THEN 1 ELSE -1) * M[rs[1]][cs[k]]
         * Det(M, Tail(rs), RemoveAt(cs, k))
       + DetSum(M, rs, cs, k + 1)
Det(M, rs, cs) == IF Len(rs) = 0 THEN 1 ELSE DetSum(M, rs, cs, 1)

Range(n) == [i \in 1..n |-> i]

\* the cofactor of entry (i, j)
Cofactor(M, i, j) ==
  LET n == Len(M)
  IN (IF (i + j) % 2 = 0 THEN 1 ELSE -1)
       * Det(M, RemoveAt(Range(n), i), RemoveAt(Range(n), j))

(* --------------------------- graph synthesizer ------------------------ *)
\* random_state.permutation(dim): the permutation of s the draw r selects
RECURSIVE PermOf(_, _)
PermOf(s, r) ==
  IF Len(s) = 0 THEN <<>>
  ELSE LET k == (r % Len(s)) + 1
       IN <<s[k]>> \o PermOf(RemoveAt(s, k), r \div Len(s))

\* A draw rand() is state / PrngMod; alpha is a fraction [n, d].
\* aux = random_state.rand(dim, dim); aux[aux < alpha] = 0;
\* aux[aux > alpha] = coef: the entry drawn for flat position k.  A draw
\* equal to alpha is left as drawn, a value within 0.01 of 1.0.
AuxDraw(s, k, alpha) ==
  LET r == PrngSkip(s, k)
  IN IF r * alpha.d < alpha.n * PrngMod THEN 0
     ELSE IF r * alpha.d > alpha.n * PrngMod THEN coef ELSE one

\* np.sum(aux > alpha): the number of coefficient draws that follow
AuxCount(s, n, alpha) ==
  Cardinality({k \in 1..(n * n) :
                 PrngSkip(s, k) * alpha.d > alpha.n * PrngMod})

\* sklearn's make_sparse_spd_matrix(dim, alpha, smallest_coef = 0.7,
\* largest_coef = 0.7, random_state = prng), entries in hundredths
make_sparse_spd_matrix(n, alpha, s) ==
  LET aux == [i \in Idx(n) |-> [j \in Idx(n) |->
                IF i > j THEN AuxDraw(s, (i - 1) * n + j, alpha) ELSE 0]]
      after == PrngSkip(s, n * n + AuxCount(s, n, alpha))
      perm == PermOf(Range(n), PrngNext(after))
      chol == [i \in Idx(n) |-> [j \in Idx(n) |->
                (IF i = j THEN -one ELSE 0) + aux[perm[j]][perm[i]]]]
      RECURSIVE Dot(_, _, _)
      Dot(i, j, k) ==
        IF k > n THEN 0 ELSE chol[k][i] * chol[k][j] + Dot(i, j, k + 1)
  IN [prec |-> [i \in Idx(n) |-> [j \in Idx(n) |-> Dot(i, j, 1)]],
      prng |-> PrngNext(after)]

\* _new_graph(n_features, alpha): the (cov, prec) pair in correlation form
\* and the state the random source is left in.  prec has determinant 1, so
\* inv(prec) is its adjugate; d[i] * d[j] = sqrt(cof[i] * cof[j]) / 100^(n-1).
new_graph(n, alpha, s) ==
  LET g == make_sparse_spd_matrix(n, alpha, s)
      P == g.prec
      cof == [i \in Idx(n) |-> Cofactor(P, i, i)]
      dd == [i \in Idx(n) |-> [j \in Idx(n) |-> ISqrt(cof[i] * cof[j])]]
  IN [cov |-> [i \in Idx(n) |-> [j \in Idx(n) |->
                 TruncDiv(100 * Cofactor(P, j, i), dd[i][j])]],
      prec |-> [i \in Idx(n) |-> [j \in Idx(n) |->
                 TruncDiv(P[i][j] * dd[i][j], Pow(100, n - 1))]],
      prng |-> g.prng]

(* ------------------------------- sampler ------------------------------ *)
\* _new_sample(n_samples, n_features, cov): the sample, summarised by its
\* size, the covariance it was drawn from and the generator state z its
\* n_samples * n_features normal draws end in (0 for an empty sample), and
\* the state the random source is left in
new_sample(n_samples, n, c, s) ==
  LET after == PrngSkip(s, n_samples * n)
  IN [X |-> [n_samples |-> n_samples, cov |-> c,
             z |-> IF n_samples > 0 THEN after ELSE 0],
      prng |-> after]

(* ------------------------------ estimators ---------------------------- *)
\* The estimators are collaborators behind fit(X) / precision_ / lam_.
\* "cv" is a model-selection estimator; "quic" is QuicGraphLasso; "truth",
\* "alias" and "dense" are trial estimator stubs: the row's true precision
\* as a fresh array, the very array of the true precision, and a matrix
\* whose every entry exceeds eps.
MsKinds == {"None", "cv"}

TrialKinds == {"None", "truth", "alias", "dense"}

\* the estimation noise of entry (i, j) of a fit on sample X, in hundredths
Noise(X, i, j) == (((X.z \div 7) + 3 * (i + j) + X.n_samples) % 7) * 10 - 30

\* soft thresholding by the penalty
Shrink(v, lam) == Sign(v) * (IF Abs(v) > lam THEN Abs(v) - lam ELSE 0)

\* getattr(ms_estimator, self.penalty_) after ms_estimator.fit(X)
SelectedPenalty(X) == ((X.z \div 100) % 2) * 10

\* new_estimator.precision_ after new_estimator.fit(X), for a clone of an
\* estimator of kind k with penalty lam, in a row whose truth is p
FittedPrecision(k, lam, X, p) ==
  LET n == Len(p)
  IN CASE k = "truth" -> p
       [] k = "alias" -> p
       [] k = "dense" -> [i \in Idx(n) |-> [j \in Idx(n) |-> eps + 1]]
       [] OTHER -> [i \in Idx(n) |-> [j \in Idx(n) |->
                      IF i = j THEN 100 + Abs(Noise(X, i, j))
                      ELSE Shrink(Noise(X, i, j) - X.cov[i][j], lam)]]

(* ------------------------------ comparator ---------------------------- *)
\* the assignment with < for <=
ThresholdedBelow(prec_hat) ==
  [i \in DOMAIN prec_hat |-> [j \in DOMAIN prec_hat[i] |->
     IF Abs(prec_hat[i][j]) < eps THEN 0 ELSE prec_hat[i][j]]]

\* the assignment with the machine epsilon of line 150 for eps: in
\* hundredths, no entry but zero is within it
ThresholdedMachineEps(prec_hat) ==
  [i \in DOMAIN prec_hat |-> [j \in DOMAIN prec_hat[i] |->
     IF Abs(prec_hat[i][j]) <= 0 THEN 0 ELSE prec_hat[i][j]]]

\* every entry moved towards zero by eps instead of the small ones set to
\* zero
ThresholdedSoft(prec_hat) ==
  [i \in DOMAIN prec_hat |-> [j \in DOMAIN prec_hat[i] |->
     Shrink(prec_hat[i][j], eps)]]

\* prec_hat[np.abs(prec_hat) <= eps] = 0.0, the array after the assignment
Thresholded(prec_hat) ==
  [i \in DOMAIN prec_hat |-> [j \in DOMAIN prec_hat[i] |->
     IF Abs(prec_hat[i][j]) <= eps THEN 0 ELSE prec_hat[i][j]]]

\* StatisticalPower.exact_support(prec, prec_hat), prec_hat another array
\* than prec: the value returned
exact_support(p, prec_hat) == Nonzero(p) = Nonzero(Thresholded(prec_hat))

(* -------------------------------- floats ------------------------------ *)
\* a float as a fraction in lowest terms; d = 0 is what a division by
\* zero leaves: 0/0 = nan, x/0 = inf
Float(a, b) ==
  IF b = 0 THEN [n |-> Sign(a), d |-> 0]
  ELSE LET g == Gcd(Abs(a), Abs(b))
       IN [n |-> (Sign(b) * a) \div g, d |-> Abs(b) \div g]

\* x += b for a float x and a bool or int b
FloatAdd(x, b) == IF x.d = 0 THEN x ELSE Float(x.n + b * x.d, x.d)

\* x /= k for a float x and an int k (true division)
FloatDiv(x, k) == IF x.d = 0 THEN x ELSE Float(x.n, x.d * k)

\* np.linspace(lo, hi, num)[i] as the fraction it denotes, lo and hi given
\* in units of 1/unit, i from 0
Linspace(lo, hi, num, i, unit) ==
  IF num = 1 THEN Float(lo, unit)
  ELSE Float(lo * (num - 1) + (hi - lo) * i, unit * (num - 1))

(* ------------------------------ controller ---------------------------- *)
VARIABLES
  cfg,          \* the constructor's arguments: model_selection_estimator,
                \* trial_estimator (kinds), n_trials, n_grid_points
  self_trial,   \* self.trial_estimator's penalty parameter (-1: never set)
  is_fitted,    \* self.is_fitted
  results_,     \* self.results_
  grid_,        \* self.grid_
  alphas_,      \* self.alphas_
  ks_,          \* self.ks_
  prng,         \* the module-level random source
  pc,           \* where the running fit call is; "idle" outside fit
  aidx,         \* fit's locals
  sidx,
  nn,
  cov,
  prec,
  n_samples,
  lam,
  trial_est,    \* the local trial_estimator: its kind and penalty
  raised,       \* the last fit call ended by an exception reaching its caller
  fit_calls,    \* calls of fit so far
  calls,        \* calls made by the current fit call, per collaborator
  hits,         \* comparator outcomes that were true, per cell, this call
  grids,        \* results_ at the return of each completed fit call
  stdout,       \* what show printed, when the last call was show
  plotted,      \* what show handed to _plot_spower, likewise
  fault_at,     \* the estimator fit of this process that raises (0: none)
  est_fits,     \* estimator fits of this process so far
  graphs,       \* the (cov, prec) pairs _new_graph returned, this call
  cell_log,     \* per cell, this call: selection fits, trial fits, sample
                \* draws, clones made, whether the mean was written, and
                \* the penalty selected
  last,         \* the arguments of the latest sampler call, comparator
                \* call and trial fit
  protos,       \* the caller's two estimator prototypes: fits called on
                \* them, and the model-selection one's penalty parameter
  cnt_in,       \* the sample count on its own: feature count, grid
  cnt_out,      \* points and grid index, and the count computed
  cmp_prec,     \* the comparator on its own: the arrays prec and
  cmp_hat,      \* prec_hat, prec_hat as first passed, and what the
  cmp_arg,      \* calls returned
  cmp_ret

ctl == <<cfg, self_trial, is_fitted, results_, grid_, alphas_, ks_, prng,
         pc, aidx, sidx, nn, cov, prec, n_samples, lam, trial_est, raised,
         fit_calls, calls, hits, grids, stdout, plotted, fault_at,
         est_fits, graphs, cell_log, last, protos>>

cnt == <<cnt_in, cnt_out>>

cmp == <<cmp_prec, cmp_hat, cmp_arg, cmp_ret>>

vars == <<ctl, cmp, cnt>>

\* None, and a name not bound yet
None == <<>>

NoCalls == [graph |-> 0, sample |-> 0, fit |-> 0, compare |-> 0]

\* nothing called yet
NoLast == [cov |-> None, n_samples |-> -1, prec |-> None,
           clone |-> [kind |-> "None", lam |-> -1, proto |-> FALSE]]

NoCell == [sel |-> 0, trials |-> 0, samples |-> 0, clones |-> 0,
           mean |-> FALSE, lam |-> -1]

\* np.linspace(0.25, 4, ...): the ends in quarters
grid_lo == 1
grid_hi == 16
grid_unit == 4
\* np.linspace(0.99, 0.999, ...): the ends in thousandths
alpha_lo == 990
alpha_hi == 999
alpha_unit == 1000

Configs ==
  [model_selection_estimator : MsKinds, trial_estimator : TrialKinds,
   n_trials : 0..MaxTrials, n_grid_points : 1..MaxGridPoints]

\* StatisticalPower.__init__ with arguments c, in a process whose f-th
\* estimator fit raises
Constructed(c, f) ==
  /\ cfg = c
  /\ self_trial = -1
  /\ is_fitted = FALSE
  /\ results_ = None
  /\ alphas_ = None
  /\ ks_ = None
  /\ grid_ = None
  /\ prng = seed
  /\ pc = "idle"
  /\ aidx = 0 /\ sidx = 0 /\ nn = 0
  /\ cov = None /\ prec = None
  /\ n_samples = 0 /\ lam = 0
  /\ trial_est = [kind |-> "None", lam |-> -1, proto |-> FALSE]
  /\ raised = FALSE
  /\ fit_calls = 0
  /\ calls = NoCalls
  /\ hits = None
  /\ grids = <<>>
  /\ stdout = ""
  /\ plotted = <<>>
  /\ fault_at = f
  /\ est_fits = 0
  /\ graphs = <<>>
  /\ cell_log = None
  /\ last = NoLast
  /\ protos = [ms_fits |-> 0, trial_fits |-> 0, ms_lam |-> -1]

CtlInit == \E c \in Configs, f \in 0..MaxFaultAt : Constructed(c, f)

CmpIdle ==
  cmp_prec = None /\ cmp_hat = None /\ cmp_arg = None /\ cmp_ret = <<>>

CntIdle == cnt_in = None /\ cnt_out = <<>>

Init == CtlInit /\ CmpIdle /\ CntIdle

NTrials == cfg.n_trials

NGridPoints == cfg.n_grid_points

\* the next estimator fit of the process is the one that raises
FitRaises == est_fits + 1 = fault_at

\* an exception caught in the loop and the step tried again
UnwindRetry(at) == at

\* where control is after an exception raised under fit at position at:
\* fit has no handler, the exception leaves fit
Unwind(at) == "idle"

\* self.results_ = np.zeros((n_alpha_grid_points, self.n_grid_points))
Zeros == [a \in 1..n_alpha_grid_points |-> [s \in 1..NGridPoints |-> Float(0, 1)]]

\* self.ks_ left as it was, for append to extend
KeepKs(old) == old

\* self.ks_ = [], whatever self.ks_ held
EmptyKs(old) == <<>>

\* the graph of the first row kept for the rows after it
StaleGraph(old, g) == IF old.cov = None THEN g ELSE old

\* cov, prec = _new_graph(...): the pair the row's names are bound to, old
\* the pair they were bound to before
BoundGraph(old, g) == g

\* the object itself instead of a copy of it
NoClone(e) == e

\* sklearn's clone(e): a new estimator with the parameters of e, not e
clone(e) == [e EXCEPT !.proto = FALSE]

\* self.model_selection_estimator and self.trial_estimator, the objects the
\* caller passed to the constructor
MsProto ==
  [kind |-> cfg.model_selection_estimator, lam |-> protos.ms_lam,
   proto |-> TRUE]

TrialProto == [kind |-> cfg.trial_estimator, lam |-> self_trial, proto |-> TRUE]

\* the prototypes after fit was called on estimator e in the phase which
\* ("ms" or "trial")
FitCalledOn(e, which) ==
  IF ~e.proto THEN protos
  ELSE IF which = "ms" THEN [protos EXCEPT !.ms_fits = @ + 1]
  ELSE [protos EXCEPT !.trial_fits = @ + 1]

\* the penalty set on the trial estimator only while it has none
PatchedOnce(old, l) == IF old = -1 THEN l ELSE old

\* trial_estimator.set_params(**{self.penalty: lam}): the penalty parameter
\* afterwards, old the one before
PatchedPenalty(old, l) == l

\* a trial loop that runs once more than range(self.n_trials)
MoreTrialsInclusive(done, n) == done <= n

\* for nn in range(self.n_trials): whether another trial follows when done
\* of them have run
MoreTrials(done, n) == done < n

\* cell_log after the counters named in which, of the current cell, went
\* up by one
Logged(which) ==
  [cell_log EXCEPT ![aidx + 1][sidx + 1] =
     [f \in DOMAIN @ |-> IF f \in which THEN @[f] + 1 ELSE @[f]]]

\* fit, lines 157-163
FitStart ==
  /\ pc = "idle"
  /\ fit_calls < MaxFits
  /\ results_' = Zeros
  /\ grid_' = [i \in 1..NGridPoints |->
                 Linspace(grid_lo, grid_hi, NGridPoints, i - 1, grid_unit)]
  /\ alphas_' = [k \in 1..n_alpha_grid_points |->
                   Linspace(alpha_lo, alpha_hi, n_alpha_grid_points,
                            n_alpha_grid_points - k, alpha_unit)]
  /\ ks_' = EmptyKs(ks_)
  /\ aidx' = 0
  /\ pc' = "row"
  /\ raised' = FALSE
  /\ fit_calls' = fit_calls + 1
  /\ calls' = NoCalls
  /\ hits' = [a \in 1..n_alpha_grid_points |-> [s \in 1..NGridPoints |-> 0]]
  /\ stdout' = ""
  /\ plotted' = <<>>
  /\ graphs' = <<>>
  /\ cell_log' = [a \in 1..n_alpha_grid_points |-> [s \in 1..NGridPoints |-> NoCell]]
  /\ last' = NoLast
  /\ UNCHANGED <<cfg, self_trial, is_fitted, prng, sidx, nn, cov, prec,
                 n_samples, lam, trial_est, grids, fault_at, est_fits,
                 protos, cmp, cnt>>

\* fit, lines 165-177: the row's graph
Row ==
  /\ pc = "row"
  /\ LET g == new_graph(NFeatures, alphas_[aidx + 1], prng)
         bound == BoundGraph([cov |-> cov, prec |-> prec],
                             [cov |-> g.cov, prec |-> g.prec])
     IN /\ cov' = bound.cov
        /\ prec' = bound.prec
        /\ prng' = g.prng
        /\ ks_' = Append(ks_, count_nonzero(bound.prec))
        /\ graphs' = Append(graphs, [cov |-> g.cov, prec |-> g.prec])
  /\ calls' = [calls EXCEPT !.graph = @ + 1]
  /\ sidx' = 0
  /\ pc' = "cell"
  /\ UNCHANGED <<cfg, self_trial, is_fitted, results_, grid_, alphas_, aidx,
                 nn, n_samples, lam, trial_est, raised, fit_calls, hits,
                 grids, stdout, plotted, fault_at, est_fits, cell_log, last,
                 protos, cmp, cnt>>

\* n_samples = int(sample_grid * self.n_features)
SampleCount(ratio, n) == (ratio.n * n) \div ratio.d

\* fit, lines 179-206: the cell's selection phase and trial estimator
Select ==
  /\ pc = "cell"
  /\ cfg.model_selection_estimator # "None"
  /\ ~FitRaises
  /\ LET m == SampleCount(grid_[sidx + 1], NFeatures)
         s == new_sample(m, NFeatures, cov, prng)
         l == SelectedPenalty(s.X)
         ms_estimator == clone(MsProto)
         trial_estimator ==
           IF cfg.trial_estimator = "None"
           THEN [kind |-> "quic", lam |-> l, proto |-> FALSE]
           ELSE TrialProto
         patched ==
           [trial_estimator EXCEPT !.lam = PatchedPenalty(@, l)]
     IN /\ n_samples' = m
        /\ prng' = s.prng
        /\ lam' = l
        /\ protos' = FitCalledOn(ms_estimator, "ms")
        /\ trial_est' = patched
        /\ self_trial' = IF patched.proto THEN patched.lam ELSE self_trial
        /\ last' = [last EXCEPT !.cov = cov, !.n_samples = m]
        /\ cell_log' = [Logged({"sel", "samples", "clones"})
                          EXCEPT ![aidx + 1][sidx + 1].lam = l]
  /\ est_fits' = est_fits + 1
  /\ calls' = [calls EXCEPT !.sample = @ + 1, !.fit = @ + 1]
  /\ nn' = 0
  /\ pc' = IF MoreTrials(0, NTrials) THEN "trial" ELSE "mean"
  /\ UNCHANGED <<cfg, is_fitted, results_, grid_, alphas_, ks_, aidx, sidx,
                 cov, prec, raised, fit_calls, hits, grids, stdout, plotted,
                 fault_at, graphs, cmp, cnt>>

\* fit, lines 180-185, when clone(None) or ms_estimator.fit(X) raises
SelectRaises ==
  /\ pc = "cell"
  /\ cfg.model_selection_estimator = "None" \/ FitRaises
  /\ LET m == SampleCount(grid_[sidx + 1], NFeatures)
         s == new_sample(m, NFeatures, cov, prng)
     IN /\ n_samples' = m
        /\ prng' = s.prng
        /\ last' = [last EXCEPT !.cov = cov, !.n_samples = m]
  /\ IF cfg.model_selection_estimator = "None"
     THEN /\ calls' = [calls EXCEPT !.sample = @ + 1]
          /\ cell_log' = Logged({"samples"})
          /\ UNCHANGED <<est_fits, protos>>
     ELSE /\ calls' = [calls EXCEPT !.sample = @ + 1, !.fit = @ + 1]
          /\ cell_log' = Logged({"sel", "samples", "clones"})
          /\ protos' = FitCalledOn(clone(MsProto), "ms")
          /\ est_fits' = est_fits + 1
  /\ raised' = TRUE
  /\ pc' = Unwind("cell")
  /\ UNCHANGED <<cfg, self_trial, is_fitted, results_, grid_, alphas_, ks_,
                 aidx, sidx, nn, cov, prec, lam, trial_est, fit_calls, hits,
                 grids, stdout, plotted, fault_at, graphs, cmp, cnt>>

\* the assignment of line 151 made into prec, where prec_hat is small
TruthAfterAssignedInto(kind, p, hat) ==
  [i \in DOMAIN p |-> [j \in DOMAIN p[i] |->
     IF Abs(hat[i][j]) <= eps THEN 0 ELSE p[i][j]]]

\* the array prec after exact_support(prec, precision_) assigned into
\* precision_ at line 151: the "alias" estimator's precision_ is prec
TruthAfter(kind, p, hat) == IF kind = "alias" THEN Thresholded(p) ELSE p

\* fit, lines 209-224: one trial
Trial ==
  /\ pc = "trial"
  /\ ~FitRaises
  /\ LET s == new_sample(n_samples, NFeatures, cov, prng)
         new_estimator == clone(trial_est)
         hat == FittedPrecision(new_estimator.kind, new_estimator.lam, s.X, prec)
         truth == TruthAfter(new_estimator.kind, prec, hat)
         b == IF exact_support(truth, hat) THEN 1 ELSE 0
     IN /\ prng' = s.prng
        /\ prec' = truth
        /\ protos' = FitCalledOn(new_estimator, "trial")
        /\ last' = [cov |-> cov, n_samples |-> n_samples, prec |-> prec,
                    clone |-> new_estimator]
        /\ results_' = [results_ EXCEPT ![aidx + 1][sidx + 1] = FloatAdd(@, b)]
        /\ hits' = [hits EXCEPT ![aidx + 1][sidx + 1] = @ + b]
  /\ est_fits' = est_fits + 1
  /\ calls' = [calls EXCEPT !.sample = @ + 1, !.fit = @ + 1, !.compare = @ + 1]
  /\ nn' = nn + 1
  /\ cell_log' = Logged({"trials", "samples", "clones"})
  /\ pc' = IF MoreTrials(nn + 1, NTrials) THEN "trial" ELSE "mean"
  /\ UNCHANGED <<cfg, self_trial, is_fitted, grid_, alphas_, ks_, aidx, sidx,
                 cov, n_samples, lam, trial_est, raised, fit_calls, grids,
                 stdout, plotted, fault_at, graphs, cmp, cnt>>

\* fit, lines 210-212, when new_estimator.fit(X) raises
TrialRaises ==
  /\ pc = "trial"
  /\ FitRaises
  /\ prng' = new_sample(n_samples, NFeatures, cov, prng).prng
  /\ protos' = FitCalledOn(clone(trial_est), "trial")
  /\ last' = [last EXCEPT !.cov = cov, !.n_samples = n_samples,
                          !.clone = clone(trial_est)]
  /\ cell_log' = Logged({"trials", "samples", "clones"})
  /\ est_fits' = est_fits + 1
  /\ calls' = [calls EXCEPT !.sample = @ + 1, !.fit = @ + 1]
  /\ raised' = TRUE
  /\ pc' = Unwind("trial")
  /\ UNCHANGED <<cfg, self_trial, is_fitted, results_, grid_, alphas_, ks_,
                 aidx, sidx, nn, cov, prec, n_samples, lam, trial_est,
                 fit_calls, hits, grids, stdout, plotted, fault_at, graphs,
                 cmp, cnt>>

\* fit, line 226 and the loop headers of lines 165 and 179
Mean ==
  /\ pc = "mean"
  /\ results_' = [results_ EXCEPT ![aidx + 1][sidx + 1] = FloatDiv(@, NTrials)]
  /\ cell_log' = [cell_log EXCEPT ![aidx + 1][sidx + 1].mean = TRUE]
  /\ IF sidx + 1 < NGridPoints
     THEN /\ sidx' = sidx + 1
          /\ pc' = "cell"
          /\ UNCHANGED aidx
     ELSE /\ aidx' = aidx + 1
          /\ pc' = IF aidx + 1 < n_alpha_grid_points THEN "row" ELSE "return"
          /\ UNCHANGED sidx
  /\ UNCHANGED <<cfg, self_trial, is_fitted, grid_, alphas_, ks_, prng, nn,
                 cov, prec, n_samples, lam, trial_est, raised, fit_calls,
                 calls, hits, grids, stdout, plotted, fault_at, est_fits,
                 graphs, last, protos, cmp, cnt>>

\* fit, lines 231-232
FitReturn ==
  /\ pc = "return"
  /\ is_fitted' = TRUE
  /\ pc' = "idle"
  /\ grids' = Append(grids, results_)
  /\ UNCHANGED <<cfg, self_trial, results_, grid_, alphas_, ks_, prng, aidx,
                 sidx, nn, cov, prec, n_samples, lam, trial_est, raised,
                 fit_calls, calls, hits, stdout, plotted, fault_at, est_fits,
                 graphs, cell_log, last, protos, cmp, cnt>>

\* show without its guard
RendersAlways(fitted) == TRUE

\* whether show goes on to _plot_spower
Renders(fitted) == fitted

\* show, lines 234-239
Show ==
  /\ pc = "idle"
  /\ IF Renders(is_fitted)
     THEN /\ stdout' = ""
          /\ plotted' = <<[results |-> results_, grid |-> grid_, ks |-> ks_]>>
     ELSE /\ stdout' = "Not fitted."
          /\ plotted' = <<>>
  /\ UNCHANGED <<cfg, self_trial, is_fitted, results_, grid_, alphas_, ks_,
                 prng, pc, aidx, sidx, nn, cov, prec, n_samples, lam,
                 trial_est, raised, fit_calls, calls, hits, grids, fault_at,
                 est_fits, graphs, cell_log, last, protos, cmp, cnt>>

Next ==
  \/ FitStart
  \/ Row
  \/ Select
  \/ SelectRaises
  \/ Trial
  \/ TrialRaises
  \/ Mean
  \/ FitReturn
  \/ Show

Spec == Init /\ [][Next]_vars

(* ------------------------ the comparator on its own -------------------- *)
\* entries of a true precision matrix: a non-zero diagonal, within eps or
\* large; off the diagonal, zero or large
PrecDiag == {eps \div 2, 10 * coef}

PrecOff == {0, 10 * coef}

\* entries of a fitted precision matrix, around eps
HatVals == {0, eps - 1, eps, -(eps + 1)}

\* the symmetric n x n matrices with diagonal entries in D, others in V
SymMatrices(n, D, V) ==
  LET pairs == {q \in Idx(n) \X Idx(n) : q[1] < q[2]}
  IN {[i \in Idx(n) |-> [j \in Idx(n) |->
         IF i = j THEN g[i] ELSE IF i < j THEN f[<<i, j>>] ELSE f[<<j, i>>]]] :
        g \in [Idx(n) -> D], f \in [pairs -> V]}

CmpInit ==
  /\ cmp_prec \in SymMatrices(NFeatures, PrecDiag, PrecOff)
  /\ cmp_hat \in SymMatrices(NFeatures, HatVals, HatVals)
  /\ cmp_arg = cmp_hat
  /\ cmp_ret = <<>>
  /\ Constructed([model_selection_estimator |-> "None",
                  trial_estimator |-> "None",
                  n_trials |-> MaxTrials,
                  n_grid_points |-> MaxGridPoints], 0)
  /\ CntIdle

\* self.exact_support(cmp_prec, cmp_hat)
Compare ==
  /\ Len(cmp_ret) < MaxCompares
  /\ cmp_ret' = Append(cmp_ret, exact_support(cmp_prec, cmp_hat))
  /\ cmp_hat' = Thresholded(cmp_hat)
  /\ UNCHANGED <<cmp_prec, cmp_arg, ctl, cnt>>

SpecCmp == CmpInit /\ [][Compare]_vars

(* ----------------------- the sample count on its own ------------------- *)
CntInit ==
  /\ cnt_in \in {c \in [n_features : 1..MaxCntFeatures,
                         n_grid_points : 1..MaxCntPoints,
                         sidx : 0..(MaxCntPoints - 1)] :
                   c.sidx < c.n_grid_points}
  /\ cnt_out = <<>>
  /\ CmpIdle
  /\ Constructed([model_selection_estimator |-> "None",
                  trial_estimator |-> "None",
                  n_trials |-> MaxTrials,
                  n_grid_points |-> MaxGridPoints], 0)

\* self.grid_[sidx] of a controller of cnt_in.n_grid_points grid points
CntRatio ==
  Linspace(grid_lo, grid_hi, cnt_in.n_grid_points, cnt_in.sidx, grid_unit)

\* line 180 for a controller of cnt_in.n_features features
Count ==
  /\ cnt_out = <<>>
  /\ cnt_out' = <<SampleCount(CntRatio, cnt_in.n_features)>>
  /\ UNCHANGED <<cnt_in, ctl, cmp>>

SpecCnt == CntInit /\ [][Count]_vars

(* ------------------------------- claims -------------------------------- *)
\* a fit call has returned to its caller without an exception
Completed == pc = "idle" /\ ~raised /\ fit_calls > 0

Cells == {q \in (1..n_alpha_grid_points) \X (1..NGridPoints) : TRUE}

\* a float that is a proportion in [0, 1]
InUnit(x) == x.d > 0 /\ 0 <= x.n /\ x.n <= x.d

\* C1: after a call of fit that an exception aborted, the controller is not
\* fitted, and show prints the diagnostic and renders nothing; this holds
\* for a first fit and for a fit on a controller an earlier fit completed on.
C1_AbortedFitIsNotFitted == raised => (~is_fitted /\ plotted = <<>>)

\* C1, a first fit only: an aborted first call of fit leaves the
\* controller not fitted, and show then renders nothing.
C1_FirstFitAborted ==
  (raised /\ fit_calls = 1) => (~is_fitted /\ plotted = <<>>)

\* C2: after fit completes, every entry of results_ is a proportion in
\* [0, 1]: the number of true comparator outcomes of the cell over n_trials,
\* for every n_trials the constructor accepts.
C2_ProportionInUnitInterval ==
  Completed =>
    \A q \in Cells :
      /\ InUnit(results_[q[1]][q[2]])
      /\ results_[q[1]][q[2]] = Float(hits[q[1]][q[2]], NTrials)

\* C2 with at least one trial: the entries are proportions in [0, 1].
C2_PositiveTrials ==
  (Completed /\ NTrials >= 1) =>
    \A q \in Cells :
      /\ InUnit(results_[q[1]][q[2]])
      /\ results_[q[1]][q[2]] = Float(hits[q[1]][q[2]], NTrials)

\* C3: two complete fit runs with identical configuration and the same
\* seed produce identical result grids, also when the second run follows
\* the first in the same process.
C3_SameGridEveryRun ==
  \A i \in DOMAIN grids : \A j \in DOMAIN grids : grids[i] = grids[j]

\* the flat indices of prec_hat that are non-zero once the entries of
\* absolute value below eps are snapped to zero
SupportBelowSnapped(M) == {k \in DOMAIN Flat(M) : Abs(Flat(M)[k]) >= eps}

\* the same, snapping the entries of absolute value at most eps
SupportAtMostSnapped(M) == {k \in DOMAIN Flat(M) : Abs(Flat(M)[k]) > eps}

\* C4: exact_support(prec, prec_hat) is true iff the non-zero flat indices
\* of prec are those of prec_hat after snapping to zero exactly the entries
\* of absolute value below eps; an entry equal to eps in absolute value is
\* not snapped.
C4_SnapsBelowEps ==
  Len(cmp_ret) >= 1 =>
    (cmp_ret[1] <=> (Nonzero(cmp_prec) = SupportBelowSnapped(cmp_arg)))

\* C4 amended: exact_support(prec, prec_hat) is true iff the non-zero flat
\* indices of prec are those of prec_hat after snapping to zero exactly the
\* entries of absolute value at most eps; an entry equal to eps in absolute
\* value is snapped.  prec is not thresholded.
C4_SnapsAtMostEps ==
  Len(cmp_ret) >= 1 =>
    (cmp_ret[1] <=> (Nonzero(cmp_prec) = SupportAtMostSnapped(cmp_arg)))

\* C4's case: a fitted entry of absolute value eps, snapped, and a match
C4_Witness ==
  /\ Len(cmp_ret) >= 1
  /\ cmp_ret[1]
  /\ \E k \in DOMAIN Flat(cmp_arg) :
       Abs(Flat(cmp_arg)[k]) = eps /\ Flat(cmp_prec)[k] = 0

OffDiagonal(M) == {q \in Idx(Len(M)) \X Idx(Len(M)) : q[1] # q[2]}

\* every off-diagonal entry is below eps in magnitude
OffDiagonalBelowEps(M) == \A q \in OffDiagonal(M) : Abs(M[q[1]][q[2]]) < eps

\* every diagonal entry exceeds eps in magnitude
DiagonalAboveEps(M) == \A i \in Idx(Len(M)) : Abs(M[i][i]) > eps

\* exactly diagonal: a non-zero diagonal and zero elsewhere
ExactlyDiagonal(M) ==
  /\ \A i \in Idx(Len(M)) : M[i][i] # 0
  /\ \A q \in OffDiagonal(M) : M[q[1]][q[2]] = 0

\* at least one off-diagonal entry exceeds eps
LargeOffDiagonal(M) == \E q \in OffDiagonal(M) : Abs(M[q[1]][q[2]]) > eps

\* C5: a fitted matrix whose every off-diagonal entry is below eps in
\* magnitude matches every exactly diagonal true matrix and mismatches
\* every true matrix with an off-diagonal entry exceeding eps.
C5_Boundary ==
  (Len(cmp_ret) >= 1 /\ OffDiagonalBelowEps(cmp_arg)) =>
    /\ ExactlyDiagonal(cmp_prec) => cmp_ret[1]
    /\ LargeOffDiagonal(cmp_prec) => ~cmp_ret[1]

\* C5 amended: a fitted matrix whose every off-diagonal entry is below eps
\* in magnitude and whose every diagonal entry exceeds eps in magnitude
\* matches every exactly diagonal true matrix; a fitted matrix whose every
\* off-diagonal entry is below eps in magnitude mismatches every true
\* matrix with an off-diagonal entry exceeding eps.
C5_BoundaryLargeDiagonal ==
  (Len(cmp_ret) >= 1 /\ OffDiagonalBelowEps(cmp_arg)) =>
    /\ (ExactlyDiagonal(cmp_prec) /\ DiagonalAboveEps(cmp_arg)) => cmp_ret[1]
    /\ LargeOffDiagonal(cmp_prec) => ~cmp_ret[1]

\* C5's case: small non-zero off-diagonals matched against a diagonal truth
C5_Witness ==
  /\ Len(cmp_ret) >= 1
  /\ cmp_ret[1]
  /\ ExactlyDiagonal(cmp_prec)
  /\ DiagonalAboveEps(cmp_arg)
  /\ \A q \in OffDiagonal(cmp_arg) : Abs(cmp_arg[q[1]][q[2]]) = eps - 1

\* C6: when an estimator's fit raises, the fit call aborts at once: the
\* error reaches the caller, and that fit call makes no further synthesizer,
\* sampler, estimator or comparator call, and draws nothing more.
C6_RaiseAbortsFit ==
  [][/\ raised' => pc' = "idle"
     /\ (raised /\ fit_calls' = fit_calls) =>
          (calls' = calls /\ est_fits' = est_fits /\ prng' = prng
           /\ results_' = results_)]_vars

\* C6's case: a trial's fit raised after trials of the call had been compared
C6_Witness == raised /\ calls.compare > 0 /\ pc = "idle"

\* C7: on a controller on which fit was never called, show returns, prints
\* 'Not fitted.', does not call the renderer, and leaves is_fitted,
\* results_, grid_, alphas_ and ks_ as they were.
C7_ShowBeforeFit ==
  [][(fit_calls = 0 /\ Show) =>
       /\ stdout' = "Not fitted."
       /\ plotted' = <<>>
       /\ pc' = "idle"
       /\ UNCHANGED <<is_fitted, results_, grid_, alphas_, ks_>>]_vars

\* C7's case: show has been called on a controller never fitted
C7_Witness == fit_calls = 0 /\ stdout = "Not fitted."

\* C8: after a second completed fit on the same controller, results_,
\* grid_, alphas_ and ks_ hold the second run's values only: each cell is
\* the second run's proportion, and ks_ has one entry per sparsity level.
C8_FitOverwrites ==
  (Completed /\ fit_calls >= 2) =>
    /\ Len(ks_) = n_alpha_grid_points
    /\ Len(alphas_) = n_alpha_grid_points
    /\ Len(grid_) = NGridPoints
    /\ \A q \in Cells :
         results_[q[1]][q[2]] = Float(hits[q[1]][q[2]], NTrials)

\* C8's case: two completed runs, both with a recovered cell
C8_Witness ==
  /\ Completed
  /\ fit_calls = 2
  /\ Len(grids) = 2
  /\ \E q \in Cells : hits[q[1]][q[2]] > 0
  /\ \E q \in Cells : grids[1][q[1]][q[2]].n > 0

\* C9: with a trial estimator that returns the row's true precision matrix
\* in every trial, every cell of results_ is 1 after fit.
C9_TruthStubAllOnes ==
  (Completed /\ cfg.trial_estimator \in {"truth", "alias"}) =>
    \A q \in Cells : results_[q[1]][q[2]] = Float(1, 1)

\* C9 with at least one trial: every cell is 1.
C9_PositiveTrials ==
  (Completed /\ cfg.trial_estimator \in {"truth", "alias"} /\ NTrials >= 1) =>
    \A q \in Cells : results_[q[1]][q[2]] = Float(1, 1)

\* C10: with a trial estimator that returns a matrix whose every entry
\* exceeds eps in magnitude, every cell of a row whose true precision
\* matrix has a zero entry is 0 after fit.
C10_DenseStubZeros ==
  (Completed /\ cfg.trial_estimator = "dense") =>
    \A q \in Cells :
      ks_[q[1]] < NFeatures * NFeatures => results_[q[1]][q[2]] = Float(0, 1)

\* C10 with at least one trial: every such cell is 0.
C10_PositiveTrials ==
  (Completed /\ cfg.trial_estimator = "dense" /\ NTrials >= 1) =>
    \A q \in Cells :
      ks_[q[1]] < NFeatures * NFeatures => results_[q[1]][q[2]] = Float(0, 1)

\* C11: the threshold is idempotent: a call of exact_support with the same
\* true matrix and a fitted matrix that an earlier call already thresholded
\* changes no entry of the fitted matrix and returns the decision the
\* earlier call returned.
C11_ThresholdIdempotent ==
  [][(Len(cmp_ret) >= 1 /\ Len(cmp_ret') = Len(cmp_ret) + 1) =>
       /\ cmp_hat' = cmp_hat
       /\ cmp_ret'[Len(cmp_ret')] = cmp_ret[Len(cmp_ret)]]_vars

\* two calls were made on a fitted matrix the first call changed, one with
\* an entry the threshold keeps, and the decision was true
C11_Witness ==
  /\ Len(cmp_ret) >= 2
  /\ cmp_hat # cmp_arg
  /\ \E i, j \in Idx(NFeatures) : cmp_hat[i][j] # 0
  /\ cmp_ret[1]

\* C12: in every completed fit each of the 5 x n_grid_points cells has its
\* model-selection estimator fitted exactly once, before every trial fit of
\* the cell, and then exactly n_trials trial fits, before the cell's mean
\* is written; every one of these fits is on a clone made for it, never on
\* a prototype, and on a sample drawn for it.
C12_CellSchedule ==
  fit_calls > 0 =>
    /\ protos.ms_fits = 0 /\ protos.trial_fits = 0
    /\ \A q \in Cells :
         LET c == cell_log[q[1]][q[2]]
         IN /\ c.sel <= 1
            /\ c.trials > 0 => c.sel = 1
            /\ c.clones = c.sel + c.trials
            /\ c.sel = 1 => c.samples = c.sel + c.trials
            /\ c.mean => (c.sel = 1 /\ c.trials = NTrials)
            /\ Completed => c.mean

\* a fit of several cells per row and several trials per cell completed
C12_Witness ==
  /\ Completed
  /\ NTrials >= 2
  /\ NGridPoints >= 2
  /\ \A q \in Cells : cell_log[q[1]][q[2]].trials = NTrials
  /\ calls.fit = n_alpha_grid_points * NGridPoints * (1 + NTrials)

\* C13: in every trial of a cell the clone that is fitted carries, as its
\* penalty parameter, the penalty read from the selection estimator of that
\* same cell, with the default trial estimator and with one caller-supplied
\* trial estimator used for all cells.
C13_TrialPenaltyOfCell ==
  (pc \in {"trial", "mean"} /\ cell_log[aidx + 1][sidx + 1].trials > 0) =>
    /\ last.clone.lam = cell_log[aidx + 1][sidx + 1].lam
    /\ last.clone.lam = lam

\* a trial ran, on a clone of a caller-supplied trial estimator, in a cell
\* whose selected penalty is not the one of an earlier cell that ran trials
C13_Witness ==
  /\ pc = "mean"
  /\ cfg.trial_estimator # "None"
  /\ cell_log[aidx + 1][sidx + 1].trials > 0
  /\ \E q \in Cells :
       /\ cell_log[q[1]][q[2]].mean
       /\ cell_log[q[1]][q[2]].trials > 0
       /\ cell_log[q[1]][q[2]].lam # lam

\* C14: in a fit the synthesizer is called once per sparsity level, 5 times
\* in a completed fit; every sampler call and every comparator call of a
\* row is given the covariance, respectively the precision, synthesized for
\* that row; and after a completed fit ks_ holds, for each entry of alphas_
\* and in the same order, the non-zero count of the row's precision.
C14_RowGraph ==
  fit_calls > 0 =>
    /\ Len(graphs) = calls.graph
    /\ pc = "row" => Len(graphs) = aidx
    /\ pc \in {"cell", "trial", "mean"} => Len(graphs) = aidx + 1
    /\ (pc \in {"trial", "mean"} \/ (raised /\ calls.sample > 0)) =>
         last.cov = graphs[aidx + 1].cov
    /\ (pc \in {"trial", "mean"} /\ cell_log[aidx + 1][sidx + 1].trials > 0) =>
         last.prec = graphs[aidx + 1].prec
    /\ Completed =>
         /\ calls.graph = n_alpha_grid_points
         /\ Len(ks_) = Len(alphas_)
         /\ \A k \in 1..Len(alphas_) : ks_[k] = count_nonzero(graphs[k].prec)

\* a completed fit that ran trials, with rows of different graphs
C14_Witness ==
  /\ Completed
  /\ calls.compare > 0
  /\ \E j, k \in 1..Len(graphs) : graphs[j] # graphs[k] /\ ks_[j] # ks_[k]

\* C15: the integer sample count of a cell is the product of the cell's
\* sample ratio and the feature count rounded to the nearest integer: it
\* is within one half of the product, for every ratio of the grid and
\* every feature count.
C15_CountIsNearestInteger ==
  cnt_out # <<>> =>
    2 * Abs(cnt_out[1] * CntRatio.d - CntRatio.n * cnt_in.n_features)
      <= CntRatio.d

\* C15, what line 180 computes: the product truncated, the largest integer
\* not above it.
C15_CountIsTruncation ==
  cnt_out # <<>> =>
    /\ cnt_out[1] * CntRatio.d <= CntRatio.n * cnt_in.n_features
    /\ CntRatio.n * cnt_in.n_features < (cnt_out[1] + 1) * CntRatio.d

\* C16: within a row the true precision matrix, and so its non-zero
\* support, is at every trial and after the last one what the synthesizer
\* returned for the row, whatever array the fitted clones return as their
\* precision, the true precision array itself included: exact_support
\* assigns into its fitted-matrix argument only.
C16_TruthKept ==
  pc \in {"cell", "trial", "mean"} =>
    /\ prec = graphs[aidx + 1].prec
    /\ Nonzero(prec) = Nonzero(graphs[aidx + 1].prec)

\* the trials of the last cell of a row are over, the fitted clones having
\* returned the true precision array itself, which has a zero entry
C16_Witness ==
  /\ pc = "mean"
  /\ cfg.trial_estimator = "alias"
  /\ sidx + 1 = NGridPoints
  /\ cell_log[aidx + 1][sidx + 1].trials >= 2
  /\ last.prec = prec
  /\ count_nonzero(prec) < NFeatures * NFeatures

\* C17: fit calls fit on neither of the caller's two estimator prototypes
\* and changes no parameter of either: both have after fit the
\* configuration they had before it.
C17_PrototypesUntouched ==
  /\ protos.ms_fits = 0
  /\ protos.trial_fits = 0
  /\ protos.ms_lam = -1
  /\ self_trial = -1

\* C17, what fit keeps: fit is called on clones only, never on a prototype;
\* no parameter of the model-selection prototype changes; of a
\* caller-supplied trial prototype the penalty parameter, and only that, is
\* set in every cell to the penalty selected for the cell.
C17_OnlyTrialPenaltySet ==
  /\ protos.ms_fits = 0
  /\ protos.trial_fits = 0
  /\ protos.ms_lam = -1
  /\ cfg.trial_estimator = "None" => self_trial = -1
  /\ self_trial # -1 => self_trial = lam
  /\ (cfg.trial_estimator # "None" /\ pc \in {"trial", "mean"}) =>
       self_trial = cell_log[aidx + 1][sidx + 1].lam

\* a fit with a caller-supplied trial estimator completed, clones of both
\* prototypes having been fitted
C17_Witness ==
  /\ Completed
  /\ cfg.trial_estimator # "None"
  /\ self_trial # -1
  /\ calls.compare > 0

\* C18: every sample count handed to the sampler during fit is an integer
\* of at least 1, for every feature count of at least 2 and every number of
\* grid points of at least 1.
C18_SampleCountAtLeastOne ==
  (NFeatures >= 2 /\ calls.sample > 0) => last.n_samples >= 1

\* C18 from the fourth feature on: the smallest ratio of the grid, 0.25,
\* times a feature count of at least 4 is at least 1.
C18_FourFeatures ==
  (cnt_out # <<>> /\ grid_lo * cnt_in.n_features >= grid_unit) =>
    cnt_out[1] >= 1
====
